---- MODULE Spec2Model ----
(***************************************************************************)
(* Model of release-man (src/script.js): the VersionUtils string algebra   *)
(* and the ReleaseApp evaluation cycles (analyzeRepo, validateVersion,     *)
(* checkReleaseSteps) with their asynchronous GitHub requests.             *)
(*                                                                         *)
(* JavaScript strings are sequences of one-character strings, so that      *)
(* replace, split, trim, Number and template formatting are modelled by    *)
(* what they do to the characters.                                         *)
(***************************************************************************)
EXTENDS Integers, Sequences, FiniteSets, TLC

(***************************************************************************)
(* Bounds of the model.                                                    *)
(***************************************************************************)
\* version components of the enumerated inputs range over 0..MaxNum
MaxNum == 1
\* remote requests issued in one run
MaxRequests == 5
\* strings handed to isValidSemver: length of what follows the digits and dots
MaxTail == 4

(***************************************************************************)
(* JavaScript values that are not strings or naturals.                     *)
(***************************************************************************)
\* Number("3+b"), and every arithmetic result on it
NaN == -1
\* parts[i] past the end of the array
Undefined == -2
\* null and undefined object values: the empty option; Some(x) is a value
NULL == <<>>

Some(x) == <<x>>

(***************************************************************************)
(* Characters and string primitives.                                       *)
(***************************************************************************)
Digits == <<"0", "1", "2", "3", "4", "5", "6", "7", "8", "9">>

\* \d of the regular expressions
IsDigit(c) == \E i \in 1..10 : Digits[i] = c

DigitVal(c) == (CHOOSE i \in 1..10 : Digits[i] = c) - 1

\* [\w.-] of the semver regular expression
IsSuffixChar(c) ==
  \/ IsDigit(c)
  \/ c \in {"a", "b", "c", "d", "e", "f", "g", "h", "i", "j", "k", "l", "m",
            "n", "o", "p", "q", "r", "s", "t", "u", "v", "w", "x", "y", "z",
            "A", "B", "C", "D", "E", "F", "G", "H", "I", "J", "K", "L", "M",
            "N", "O", "P", "Q", "R", "S", "T", "U", "V", "W", "X", "Y", "Z",
            "_", ".", "-"}

\* String.prototype.trim on the blanks of the modelled inputs
RECURSIVE TrimLeft(_)
TrimLeft(s) == IF s # <<>> /\ Head(s) = " " THEN TrimLeft(Tail(s)) ELSE s

RECURSIVE TrimRight(_)
TrimRight(s) ==
  IF s # <<>> /\ s[Len(s)] = " " THEN TrimRight(SubSeq(s, 1, Len(s) - 1)) ELSE s

Trim(s) == TrimRight(TrimLeft(s))

\* s.replace(/^v/, "")
StripV(s) == IF s # <<>> /\ Head(s) = "v" THEN Tail(s) ELSE s

\* s.endsWith(suffix)
EndsWith(s, suffix) ==
  /\ Len(s) >= Len(suffix)
  /\ SubSeq(s, Len(s) - Len(suffix) + 1, Len(s)) = suffix

\* index of the first occurrence of character c in s, 0 when absent
IndexOf(s, c) ==
  IF \E i \in 1..Len(s) : s[i] = c
  THEN CHOOSE i \in 1..Len(s) : s[i] = c /\ \A j \in 1..(i - 1) : s[j] # c
  ELSE 0

\* s.split(c) for a one-character separator
RECURSIVE Split(_, _)
Split(s, c) ==
  LET i == IndexOf(s, c)
  IN  IF i = 0 THEN <<s>>
      ELSE <<SubSeq(s, 1, i - 1)>> \o Split(SubSeq(s, i + 1, Len(s)), c)

\* Number(s) for the strings split produces: digits, the empty string, or NaN
RECURSIVE DigitsValue(_)
DigitsValue(s) ==
  IF s = <<>> THEN 0
  ELSE 10 * DigitsValue(SubSeq(s, 1, Len(s) - 1)) + DigitVal(s[Len(s)])

Number(s) ==
  IF \A i \in 1..Len(s) : IsDigit(s[i]) THEN DigitsValue(s) ELSE NaN

\* parts[i] of an array produced by split(".").map(Number)
Part(parts, i) == IF i <= Len(parts) THEN parts[i] ELSE Undefined

\* x + 1 in JavaScript: NaN + 1 and undefined + 1 are NaN
PlusOne(x) == IF x \in {NaN, Undefined} THEN NaN ELSE x + 1

\* parseInt(s): the leading run of digits, NaN when there is none
RECURSIVE DigitPrefix(_)
DigitPrefix(s) ==
  IF s # <<>> /\ IsDigit(Head(s)) THEN <<Head(s)>> \o DigitPrefix(Tail(s)) ELSE <<>>

ParseInt(s) == IF DigitPrefix(s) = <<>> THEN NaN ELSE DigitsValue(DigitPrefix(s))

\* `${x}` for a number, NaN or undefined
RECURSIVE NatToStr(_)
NatToStr(n) ==
  IF n < 10 THEN <<Digits[n + 1]>>
  ELSE NatToStr(n \div 10) \o <<Digits[(n % 10) + 1]>>

ToStr(x) ==
  IF x = NaN THEN <<"N", "a", "N">>
  ELSE IF x = Undefined THEN <<"u", "n", "d", "e", "f", "i", "n", "e", "d">>
  ELSE NatToStr(x)

\* `v${a}.${b}.${c}`
FormatV(a, b, c) == <<"v">> \o ToStr(a) \o <<".">> \o ToStr(b) \o <<".">> \o ToStr(c)

(***************************************************************************)
(* VersionUtils                                                            *)
(***************************************************************************)
\* one or more of the characters accepted by [\w.-]
IsSuffixBody(s) == s # <<>> /\ \A i \in 1..Len(s) : IsSuffixChar(s[i])

\* (-[\w.-]+)?(\+[\w.-]+)?$ on what follows the third run of digits
IsSuffixTail(s) ==
  LET plus == IndexOf(s, "+")
  IN  \/ s = <<>>
      \/ /\ Head(s) = "-"
         /\ IF plus = 0 THEN IsSuffixBody(Tail(s))
            ELSE /\ IsSuffixBody(SubSeq(s, 2, plus - 1))
                 /\ IsSuffixBody(SubSeq(s, plus + 1, Len(s)))
      \/ /\ Head(s) = "+"
         /\ IsSuffixBody(Tail(s))

\* /^\d+\.\d+\.\d+(-[\w.-]+)?(\+[\w.-]+)?$/.test(s)
SemverRegexTest(s) ==
  LET d1 == DigitPrefix(s)
      r1 == SubSeq(s, Len(d1) + 1, Len(s))
      d2 == DigitPrefix(IF r1 = <<>> THEN <<>> ELSE Tail(r1))
      r2 == SubSeq(r1, Len(d2) + 2, Len(r1))
      d3 == DigitPrefix(IF r2 = <<>> THEN <<>> ELSE Tail(r2))
      r3 == SubSeq(r2, Len(d3) + 2, Len(r2))
  IN  /\ d1 # <<>> /\ r1 # <<>> /\ Head(r1) = "."
      /\ d2 # <<>> /\ r2 # <<>> /\ Head(r2) = "."
      /\ d3 # <<>>
      /\ IsSuffixTail(r3)

\* isValidSemver applying the regular expression to the string as given
isValidSemver_NoStrip(version) == SemverRegexTest(version)

isValidSemver(version) == SemverRegexTest(StripV(version))

\* version.replace(/^v/, "").split("-")[0].split(".").map(Number)
CleanParts(version) ==
  LET clean == Split(StripV(version), "-")[1]
      strs  == Split(clean, ".")
  IN  [i \in 1..Len(strs) |-> Number(strs[i])]

\* a > b and a < b of JavaScript: false as soon as one side is NaN or undefined
JsGreater(a, b) == a \notin {NaN, Undefined} /\ b \notin {NaN, Undefined} /\ a > b

JsLess(a, b) == a \notin {NaN, Undefined} /\ b \notin {NaN, Undefined} /\ a < b

\* a === b on numbers: NaN equals nothing, undefined equals undefined
JsStrictEq(a, b) == a # NaN /\ b # NaN /\ a = b

RECURSIVE CompareFrom(_, _, _)
CompareFrom(parts1, parts2, i) ==
  IF i > 3 THEN 0
  ELSE IF JsGreater(Part(parts1, i), Part(parts2, i)) THEN 1
  ELSE IF JsLess(Part(parts1, i), Part(parts2, i)) THEN -1
  ELSE CompareFrom(parts1, parts2, i + 1)

compareSemver(version1, version2) ==
  CompareFrom(CleanParts(version1), CleanParts(version2), 1)

getNextVersion(currentVersion, type) ==
  LET parts == CleanParts(currentVersion)
  IN  IF type = "major" THEN FormatV(PlusOne(Part(parts, 1)), 0, 0)
      ELSE IF type = "minor" THEN FormatV(Part(parts, 1), PlusOne(Part(parts, 2)), 0)
      ELSE FormatV(Part(parts, 1), Part(parts, 2), PlusOne(Part(parts, 3)))

isNextVersion(current, next) ==
  LET currentParts == CleanParts(current)
      nextParts    == CleanParts(next)
  IN  IF /\ JsStrictEq(Part(nextParts, 3), PlusOne(Part(currentParts, 3)))
         /\ JsStrictEq(Part(nextParts, 2), Part(currentParts, 2))
         /\ JsStrictEq(Part(nextParts, 1), Part(currentParts, 1))
      THEN "patch"
      ELSE IF /\ JsStrictEq(Part(nextParts, 2), PlusOne(Part(currentParts, 2)))
              /\ JsStrictEq(Part(nextParts, 3), 0)
              /\ JsStrictEq(Part(nextParts, 1), Part(currentParts, 1))
      THEN "minor"
      ELSE IF /\ JsStrictEq(Part(nextParts, 1), PlusOne(Part(currentParts, 1)))
              /\ JsStrictEq(Part(nextParts, 2), 0)
              /\ JsStrictEq(Part(nextParts, 3), 0)
      THEN "major"
      ELSE "false"

(***************************************************************************)
(* Strings of the release channel convention.                              *)
(***************************************************************************)
\* "-vscode"
ChannelSuffix == <<"-", "v", "s", "c", "o", "d", "e">>

\* "-vscode-release"
ReleaseBranchSuffix == ChannelSuffix \o <<"-", "r", "e", "l", "e", "a", "s", "e">>

\* ReleaseBranchName without the channel part
ReleaseBranchName_NoChannel(version) == version \o <<"-", "r", "e", "l", "e", "a", "s", "e">>

\* `${version}-vscode-release`
ReleaseBranchName(version) == version \o ReleaseBranchSuffix

\* `${version}-vscode`
ReleaseTag(version) == version \o ChannelSuffix

(***************************************************************************)
(* Inputs and remote responses the model enumerates.                       *)
(***************************************************************************)
\* "v"? M.m.p for the components 0..MaxNum
Triples == {<<a, b, c>> : a \in 0..MaxNum, b \in 0..MaxNum, c \in 0..MaxNum}

Plain(t) == ToStr(t[1]) \o <<".">> \o ToStr(t[2]) \o <<".">> \o ToStr(t[3])

\* values typed into the repository field
RepoInputs == {<<>>, <<"a", "/">>, <<" ", "a", "/", "b">>}

\* the same with a second repository
TwoRepoInputs == RepoInputs \cup {<<"c", "/", "d">>}

\* values typed into the target-version field: valid, blank and malformed
TargetInputs ==
  { <<" ", "v", "1", ".", "0", ".", "0">>,
    <<>>,
    <<"v", "1", ".", "0">> }

\* values typed into the from-version field
FromInputs == {<<>>, <<"v", "1", ".", "1", ".", "0">> \o ChannelSuffix \o <<" ">>}

\* release lists GET /releases can answer with
ReleaseLists ==
  { << [tag_name |-> <<"v", "1", ".", "0", ".", "0">> \o ChannelSuffix, prerelease |-> FALSE],
       [tag_name |-> <<"v", "1", ".", "1", ".", "0">> \o ChannelSuffix, prerelease |-> TRUE],
       [tag_name |-> <<"v", "1", ".", "1", ".", "1">> \o ChannelSuffix, prerelease |-> FALSE],
       [tag_name |-> <<"v", "0", ".", "1", ".", "0">> \o ChannelSuffix, prerelease |-> TRUE] >>,
    << [tag_name |-> <<"v", "1", ".", "0", ".", "0">>, prerelease |-> FALSE],
       [tag_name |-> <<"v", "1", ".", "0", ".", "1">> \o ChannelSuffix, prerelease |-> TRUE] >> }

\* the records GET /repos/{owner}/{repo}/releases answers with: each carries
\* the url of its repository
ReleasesOf(owner, repo, list) ==
  [k \in 1..Len(list) |->
     [tag_name |-> list[k].tag_name, prerelease |-> list[k].prerelease,
      url |-> <<owner, repo>>]]

\* outcomes of GET /branches/{name}: 200, 404, or a transport failure
BranchResponses == {"ok", "notfound", "error"}

\* version fields of the package.json GET /contents can answer with
ManifestVersions ==
  { <<"1", ".", "0", ".", "0">>,
    <<"v", "1", ".", "0", ".", "0">> }

\* outcomes of getPackageJson: a parsed manifest, or the thrown error
PackageResponses == {[ok |-> TRUE, version |-> m] : m \in ManifestVersions}
                      \cup {[ok |-> FALSE, version |-> <<>>]}

\* a commit of a comparison: sha and message
SampleCommit ==
  [sha |-> <<"a", "b", "c", "d", "e", "f", "0", "1", "2">>, message |-> <<"f", "i", "x", "\n", "b">>]

\* outcomes of GET /compare: a failure, no commits, one commit
CompareResponses ==
  { [ok |-> FALSE, commits |-> <<>>],
    [ok |-> TRUE, commits |-> <<>>],
    [ok |-> TRUE, commits |-> <<SampleCommit>>] }

(***************************************************************************)
(* Pure parts of ReleaseApp.                                               *)
(***************************************************************************)
\* this.releases.filter(r => r.tag_name.endsWith("-vscode"))
VscodeReleases(rels) == SelectSeq(rels, LAMBDA r : EndsWith(r.tag_name, ChannelSuffix))

\* array.find(pred): the first element accepted, NULL for undefined
FirstStable(rels) ==
  LET hits == SelectSeq(rels, LAMBDA r : ~r.prerelease)
  IN  IF hits = <<>> THEN NULL ELSE Some(Head(hits).tag_name)

FirstPrerelease(rels) ==
  LET hits == SelectSeq(rels, LAMBDA r : r.prerelease)
  IN  IF hits = <<>> THEN NULL ELSE Some(Head(hits).tag_name)

\* LatestRelease without the filter on the channel suffix
LatestRelease_Unfiltered(rels) == FirstStable(rels)

\* tag of latestRelease of updateCurrentStatus and generateReleaseSteps
LatestRelease(rels) == FirstStable(VscodeReleases(rels))

\* tag of latestPrerelease of updateCurrentStatus
LatestPrerelease(rels) == FirstPrerelease(VscodeReleases(rels))

\* s.replace(/-vscode$/, "")
StripChannel(s) ==
  IF EndsWith(s, ChannelSuffix) THEN SubSeq(s, 1, Len(s) - Len(ChannelSuffix)) ELSE s

getNextPatchVersion(currentVersion) ==
  LET strs  == Split(StripChannel(StripV(currentVersion)), ".")
      parts == [i \in 1..Len(strs) |-> Number(strs[i])]
  IN  FormatV(Part(parts, 1), Part(parts, 2), PlusOne(Part(parts, 3)))

\* ValidateGuard without the isValidSemver test
ValidateGuard_NoSemver(versionInput) == versionInput # <<>>

\* the condition of validateVersion on the trimmed field value

ValidateGuard(versionInput) == versionInput # <<>> /\ isValidSemver(versionInput)

\* FallbackBase keeping the minor of the target
FallbackBase_SameMinor(cleanVersion) ==
  LET strs == Split(cleanVersion, ".")
      minor == IF Len(strs) >= 2 THEN ParseInt(strs[2]) ELSE NaN
  IN  <<"v">> \o strs[1] \o <<".">> \o ToStr(minor) \o <<".", "x">> \o ChannelSuffix

\* `v${clean.split(".")[0]}.${parseInt(clean.split(".")[1]) + 1}.x-vscode`
FallbackBase(cleanVersion) ==
  LET strs == Split(cleanVersion, ".")
      minor == IF Len(strs) >= 2 THEN ParseInt(strs[2]) ELSE NaN
  IN  <<"v">> \o strs[1] \o <<".">> \o ToStr(PlusOne(minor)) \o <<".", "x">> \o ChannelSuffix

\* baseBranch of generateReleaseSteps
BaseBranch(version, fromValue) ==
  IF Trim(fromValue) # <<>> THEN Trim(fromValue) ELSE FallbackBase(StripV(version))

\* the three texts generateReleaseSteps writes before it reads this.currentRepo
StepsCommands(old, version, fromValue) ==
  [old EXCEPT !.createCmd = <<ReleaseBranchName(version), BaseBranch(version, fromValue)>>,
              !.targetVersion = StripV(version),
              !.pushCmd = ReleaseBranchName(version)]

\* everything generateReleaseSteps writes when this.currentRepo is set
StepsAll(old, version, fromValue, repo, rels) ==
  [StepsCommands(old, version, fromValue) EXCEPT
     !.link = [owner |-> repo.owner, repo |-> repo.repo,
               tag |-> ReleaseTag(version), target |-> ReleaseBranchName(version)],
     !.previousTag = IF LatestRelease(rels) = NULL THEN <<"latest release">>
                     ELSE LatestRelease(rels)[1]]

\* className and message updateStatus leaves on a check element
Item(isValid, message) ==
  [cls |-> IF isValid THEN "check-item success" ELSE "check-item danger", msg |-> message]

\* the reset of checkReleaseSteps: className only, the message stays
ResetItem(item) == [item EXCEPT !.cls = "check-item"]

\* BranchExists answering true on a transport failure
BranchExists_ErrorAsTrue(resp) == resp # "notfound"

\* BranchExists answering true whatever the request did
BranchExists_Always(resp) == TRUE

\* checkBranchExists: true when the request succeeds, false on anything else
BranchExists(resp) == resp = "ok"

\* compareCommits: the comparison when the request succeeds, null on anything else
compareCommits(resp) == IF resp.ok THEN Some(resp.commits) ELSE NULL

\* HasBase taking the comparison whatever the from-version field holds
HasBase_Always(fromVersionInput) == TRUE

\* the guard of checkCherryPickedCommits on the trimmed from-version
HasBase(fromVersionInput) == fromVersionInput # <<>>

\* PackageCheck with the catch block reporting the check as valid
PackageCheck_ErrorAsPass(version, resp) ==
  IF ~resp.ok THEN Item(TRUE, <<"Error checking package.json version">>)
  ELSE IF resp.version = StripV(version)
       THEN Item(TRUE, <<"package.json version == v", StripV(version)>>)
       ELSE Item(FALSE, <<"package.json version != v", StripV(version), resp.version>>)

\* PackageCheck leaving the check unresolved when the fetch fails
PackageCheck_ErrorUnresolved(version, resp) ==
  IF ~resp.ok THEN [cls |-> "check-item", msg |-> <<"Error checking package.json version">>]
  ELSE IF resp.version = StripV(version)
       THEN Item(TRUE, <<"package.json version == v", StripV(version)>>)
       ELSE Item(FALSE, <<"package.json version != v", StripV(version), resp.version>>)

\* the package-version check of checkReleaseSteps on getPackageJson's outcome
PackageCheck(version, resp) ==
  IF ~resp.ok THEN Item(FALSE, <<"Error checking package.json version">>)
  ELSE IF resp.version = StripV(version)
       THEN Item(TRUE, <<"package.json version == v", StripV(version)>>)
       ELSE Item(FALSE, <<"package.json version != v", StripV(version), resp.version>>)

\* one <li> of showCherryPickInfo: short sha and the first message line
CommitLine(commit) == <<"commit", SubSeq(commit.sha, 1, 7), Split(commit.message, "\n")[1]>>

\* the cherry-pick section hidden by hideCherryPickInfo
CherryHidden(old) == [old EXCEPT !.display = "none"]

\* the cherry-pick section after showCherryPickInfo
CherryShown(base, releaseBranch, commits) ==
  [display |-> "block",
   list |-> IF commits = <<>> THEN <<<<"None">>>>
            ELSE [i \in 1..Len(commits) |-> CommitLine(commits[i])],
   link |-> <<base, releaseBranch>>]

\* CherryAfterCompare hiding the section when there is nothing to list
CherryAfterCompare_HideOnNull(old, base, releaseBranch, resp) ==
  IF resp.ok /\ Len(resp.commits) > 0
  THEN CherryShown(base, releaseBranch, resp.commits)
  ELSE CherryHidden(old)

\* checkCherryPickedCommits on compareCommits' outcome
CherryAfterCompare(old, base, releaseBranch, resp) ==
  LET comparison == compareCommits(resp)
  IN  IF comparison # NULL /\ Len(comparison[1]) > 0
      THEN CherryShown(base, releaseBranch, comparison[1])
      ELSE CherryShown(base, releaseBranch, <<>>)

\* ReleaseCheck looking for the bare version instead of the channel tag
ReleaseCheck_NoSuffix(rels, version) ==
  IF \E i \in 1..Len(rels) : rels[i].tag_name = version
  THEN Item(TRUE, <<"Release published", ReleaseTag(version)>>)
  ELSE Item(FALSE, <<"GitHub release not found", ReleaseTag(version)>>)

\* checkGitHubReleaseExists on this.releases
ReleaseCheck(rels, version) ==
  IF \E i \in 1..Len(rels) : rels[i].tag_name = ReleaseTag(version)
  THEN Item(TRUE, <<"Release published", ReleaseTag(version)>>)
  ELSE Item(FALSE, <<"GitHub release not found", ReleaseTag(version)>>)

(***************************************************************************)
(* State.                                                                  *)
(***************************************************************************)
VARIABLES
  targetInput,  \* value of #target-release-version
  fromInput,    \* value of #from-prerelease-version
  currentRepo,  \* this.currentRepo: NULL or Some([owner, repo])
  repoData,     \* this.repoData: NULL or Some(the repository fetched)
  releases,     \* this.releases: NULL or Some(release list)
  repoError,    \* #repo-error: NULL when hidden, Some(message) when shown
  loading,      \* #loading is visible
  sections,     \* the sections showSection has unhidden
  panel,        \* #latest-release and #latest-prerelease of the status panel
  steps,        \* the commands, link and instruction of generateReleaseSteps
  checks,       \* the three check elements: className and message
  cherry,       \* #cherry-picked-commits-info: display, list, compare link
  cycles,       \* the invocations of checkReleaseSteps past the repo guard
  calls,        \* the invocations of analyzeRepo that issued requests
  sent,         \* number of remote requests issued so far
  uncaught,     \* a handler's promise was rejected with an uncaught error
  va,           \* VersionUtils calculator: first argument
  vb,           \* VersionUtils calculator: second argument
  op,           \* VersionUtils calculator: the function last applied
  out           \* VersionUtils calculator: its result

domVars == <<targetInput, fromInput, repoError, loading, sections, panel,
             steps, checks, cherry>>

appVars == <<currentRepo, repoData, releases, cycles, calls, sent, uncaught>>

algVars == <<va, vb, op, out>>

vars == <<domVars, appVars, algVars>>

(***************************************************************************)
(* ReleaseApp: construction and page load.                                 *)
(***************************************************************************)
\* an invocation of analyzeRepo suspended at Promise.all: its locals and
\* which of the two requests have been answered
NewCall(owner, repo) ==
  [owner |-> owner, repo |-> repo, repoResp |-> "pending", relResp |-> "pending",
   relList |-> <<>>, pc |-> "pending"]

\* an invocation of analyzeRepo that has returned: its frame is gone
ReturnedCall(outcome) ==
  [owner |-> <<>>, repo |-> <<>>, repoResp |-> "", relResp |-> "",
   relList |-> <<>>, pc |-> outcome]

\* StoredRepo taking the names of the call issued last
StoredRepo_LatestCall(call) ==
  [owner |-> calls[Len(calls)].owner, repo |-> calls[Len(calls)].repo]

\* this.currentRepo = { owner, repo } from the locals of the call
StoredRepo(call) == [owner |-> call.owner, repo |-> call.repo]

\* the synchronous part of analyzeRepo: validation of the field, then the
\* two requests of Promise.all
AnalyzeRepoSync(input, oldCalls, oldLoading, oldSent) ==
  LET parts == Split(Trim(input), "/")
  IN  IF Trim(input) = <<>>
      THEN [repoError |-> Some("Please enter a repository name"),
            loading |-> oldLoading, calls |-> oldCalls, sent |-> oldSent]
      ELSE IF parts[1] = <<>> \/ Len(parts) < 2 \/ parts[2] = <<>>
      THEN [repoError |-> Some("Please use format: owner/repo"),
            loading |-> oldLoading, calls |-> oldCalls, sent |-> oldSent]
      ELSE [repoError |-> NULL,
            loading |-> TRUE,
            calls |-> Append(oldCalls, NewCall(parts[1], parts[2])),
            sent |-> oldSent + 2]

\* the calculator is not part of the page
AlgIdle == va = <<>> /\ vb = <<>> /\ op = "none" /\ out = <<>>

\* new ReleaseApp() followed by app.analyzeRepo() with #repo-input holding input
PageLoad(input) ==
  /\ targetInput = <<>>
  /\ fromInput = <<>>
  /\ currentRepo = NULL
  /\ repoData = NULL
  /\ releases = NULL
  /\ LET r == AnalyzeRepoSync(input, <<>>, FALSE, 0)
     IN  /\ repoError = r.repoError
         /\ loading = r.loading
         /\ calls = r.calls
         /\ sent = r.sent
  /\ sections = {}
  /\ panel = [latestRelease |-> NULL, latestPrerelease |-> NULL]
  /\ steps = [createCmd |-> <<>>, targetVersion |-> <<>>, pushCmd |-> <<>>,
              link |-> [owner |-> <<>>, repo |-> <<>>, tag |-> <<>>, target |-> <<>>],
              previousTag |-> <<>>]
  /\ checks = [branch  |-> [cls |-> "check-item", msg |-> <<"">>],
               package |-> [cls |-> "check-item", msg |-> <<"">>],
               release |-> [cls |-> "check-item", msg |-> <<"">>]]
  /\ cherry = [display |-> "", list |-> <<>>, link |-> <<>>]
  /\ cycles = <<>>
  /\ uncaught = FALSE

\* DOMContentLoaded, whatever the default value of #repo-input is
Init == (\E input \in RepoInputs : PageLoad(input)) /\ AlgIdle

(***************************************************************************)
(* checkReleaseSteps, cut at its awaits.                                   *)
(***************************************************************************)
\* NewCycle starting with the manifest fetch instead of the branch probe
NewCycle_SkipProbe(repo, version) ==
  [owner |-> repo.owner, repo |-> repo.repo, version |-> version,
   branch |-> ReleaseBranchName(version), pc |-> "package", base |-> <<>>]

\* an invocation of checkReleaseSteps suspended at the await of
\* checkBranchExists: its locals, and the request it waits for (pc)
NewCycle(repo, version) ==
  [owner |-> repo.owner, repo |-> repo.repo, version |-> version,
   branch |-> ReleaseBranchName(version), pc |-> "branch", base |-> <<>>]

\* ReturnedCycle probing the branch again instead of returning
ReturnedCycle_Retry ==
  [owner |-> <<>>, repo |-> <<>>, version |-> <<>>, branch |-> <<>>,
   pc |-> "branch", base |-> <<>>]

\* an invocation of checkReleaseSteps that has returned: its frame is gone
ReturnedCycle ==
  [owner |-> <<>>, repo |-> <<>>, version |-> <<>>, branch |-> <<>>,
   pc |-> "done", base |-> <<>>]

\* checkReleaseSteps(version) up to the await of checkBranchExists, called
\* with this.currentRepo set: reset of the three checks, then the request
StartCycle(repo, version) ==
  /\ checks' = [branch  |-> ResetItem(checks.branch),
                package |-> ResetItem(checks.package),
                release |-> ResetItem(checks.release)]
  /\ cycles' = Append(cycles, NewCycle(repo, version))
  /\ sent < MaxRequests
  /\ sent' = sent + 1

\* validateVersion() on the field values tIn and fIn
ValidateVersion(tIn, fIn) ==
  LET versionInput == Trim(tIn)
  IN  IF ~ValidateGuard(versionInput)
      THEN UNCHANGED <<steps, sections, checks, cycles, sent, uncaught>>
      ELSE IF currentRepo = NULL
      THEN \* generateReleaseSteps throws on `const {owner, repo} = null`
           /\ steps' = StepsCommands(steps, versionInput, fIn)
           /\ uncaught' = TRUE
           /\ UNCHANGED <<sections, checks, cycles, sent>>
      ELSE /\ steps' = StepsAll(steps, versionInput, fIn, currentRepo[1], releases[1])
           /\ sections' = sections \cup {"release-process"}
           /\ StartCycle(currentRepo[1], versionInput)
           /\ UNCHANGED uncaught

\* input event of #target-release-version
EditTarget(s) ==
  /\ targetInput' = s
  /\ ValidateVersion(s, fromInput)
  /\ UNCHANGED <<fromInput, repoError, loading, panel, cherry>>
  /\ UNCHANGED <<currentRepo, repoData, releases, calls>>
  /\ UNCHANGED algVars

\* input event of #from-prerelease-version
EditFrom(s) ==
  /\ fromInput' = s
  /\ ValidateVersion(targetInput, s)
  /\ UNCHANGED <<targetInput, repoError, loading, panel, cherry>>
  /\ UNCHANGED <<currentRepo, repoData, releases, calls>>
  /\ UNCHANGED algVars

(***************************************************************************)
(* analyzeRepo.                                                            *)
(***************************************************************************)
\* click on #analyze-btn, or Enter in #repo-input, with the field holding input
AnalyzeRepo(input) ==
  LET r == AnalyzeRepoSync(input, calls, loading, sent)
  IN  /\ r.sent <= MaxRequests
      /\ repoError' = r.repoError
      /\ loading' = r.loading
      /\ calls' = r.calls
      /\ sent' = r.sent
      /\ UNCHANGED <<targetInput, fromInput, sections, panel, steps, checks, cherry>>
      /\ UNCHANGED <<currentRepo, repoData, releases, cycles, uncaught>>
      /\ UNCHANGED algVars

\* AnalyzeFailed without the finally block
AnalyzeFailed_KeepsLoading(i) ==
  /\ calls' = [calls EXCEPT ![i] = ReturnedCall("failed")]
  /\ repoError' = Some("Failed to fetch repository")
  /\ UNCHANGED <<targetInput, fromInput, sections, panel, steps, checks, cherry, loading>>
  /\ UNCHANGED <<currentRepo, repoData, releases, cycles, sent, uncaught>>

\* the catch and finally of analyzeRepo once Promise.all has rejected
AnalyzeFailed(i) ==
  /\ calls' = [calls EXCEPT ![i] = ReturnedCall("failed")]
  /\ repoError' = Some("Failed to fetch repository")
  /\ loading' = FALSE
  /\ UNCHANGED <<targetInput, fromInput, sections, panel, steps, checks, cherry>>
  /\ UNCHANGED <<currentRepo, repoData, releases, cycles, sent, uncaught>>

\* an answer that leaves Promise.all pending
AnalyzeWaits(i, newCall) ==
  /\ calls' = [calls EXCEPT ![i] = newCall]
  /\ UNCHANGED domVars
  /\ UNCHANGED <<currentRepo, repoData, releases, cycles, sent, uncaught>>

\* the rest of the try block of analyzeRepo once both answers are in:
\* the three fields, updateCurrentStatus, the sections, then finally
AnalyzeSucceeded(i, newCall) ==
  LET repo   == StoredRepo(newCall)
      rels   == newCall.relList
      latest == LatestRelease(rels)
      pre    == LatestPrerelease(rels)
      nextVersion == getNextPatchVersion(latest[1])
      fromVersion == IF pre # NULL THEN pre[1] ELSE <<>>
  IN  /\ calls' = [calls EXCEPT ![i] = ReturnedCall("succeeded")]
      /\ repoData' = Some([owner |-> newCall.owner, repo |-> newCall.repo])
      /\ releases' = Some(rels)
      /\ currentRepo' = Some(repo)
      /\ panel' = [latestRelease |-> latest, latestPrerelease |-> pre]
      /\ loading' = FALSE
      /\ IF latest # NULL
         THEN /\ targetInput' = nextVersion
              /\ fromInput' = fromVersion
              /\ steps' = StepsAll(steps, nextVersion, fromVersion, repo, rels)
              /\ sections' = sections \cup {"release-process", "current-status", "plan-release"}
              /\ StartCycle(repo, nextVersion)
         ELSE /\ sections' = sections \cup {"current-status", "plan-release"}
              /\ UNCHANGED <<targetInput, fromInput, steps, checks, cycles, sent>>
      /\ UNCHANGED <<repoError, cherry, uncaught>>

\* the answer to getRepo of call i
RepoResponse(i, ok) ==
  /\ calls[i].pc = "pending"
  /\ calls[i].repoResp = "pending"
  /\ LET newCall == [calls[i] EXCEPT !.repoResp = IF ok THEN "ok" ELSE "fail"]
     IN  IF ~ok THEN AnalyzeFailed(i)
         ELSE IF newCall.relResp = "ok" THEN AnalyzeSucceeded(i, newCall)
         ELSE AnalyzeWaits(i, newCall)
  /\ UNCHANGED algVars

\* the answer to getReleases of call i: a list, or a failure
ReleasesResponse(i, ok, list) ==
  /\ calls[i].pc = "pending"
  /\ calls[i].relResp = "pending"
  /\ LET newCall == [calls[i] EXCEPT !.relResp = IF ok THEN "ok" ELSE "fail",
                                     !.relList = IF ok THEN ReleasesOf(calls[i].owner, calls[i].repo, list)
                                                 ELSE <<>>]
     IN  IF ~ok THEN AnalyzeFailed(i)
         ELSE IF newCall.repoResp = "ok" THEN AnalyzeSucceeded(i, newCall)
         ELSE AnalyzeWaits(i, newCall)
  /\ UNCHANGED algVars

(***************************************************************************)
(* checkReleaseSteps after its awaits.                                     *)
(***************************************************************************)
\* checkBranchExists has answered cycle c
BranchResponse(c, resp) ==
  LET cy == cycles[c]
  IN  /\ cy.pc = "branch"
      /\ IF BranchExists(resp)
         THEN \* branch check written, getPackageJson requested at the branch
              /\ checks' = [checks EXCEPT
                   !.branch = Item(TRUE, <<"Branch found", cy.branch>>)]
              /\ cycles' = [cycles EXCEPT ![c] = [cy EXCEPT !.pc = "package"]]
              /\ sent < MaxRequests
              /\ sent' = sent + 1
              /\ UNCHANGED cherry
         ELSE \* both checks failed, section hidden, then checkGitHubReleaseExists
              /\ checks' =
                   [branch  |-> Item(FALSE, <<"Release branch missing, run command to create branch">>),
                    package |-> Item(FALSE, <<"Release branch not created">>),
                    release |-> ReleaseCheck(releases[1], cy.version)]
              /\ cherry' = CherryHidden(cherry)
              /\ cycles' = [cycles EXCEPT ![c] = ReturnedCycle]
              /\ UNCHANGED sent
      /\ UNCHANGED <<targetInput, fromInput, repoError, loading, sections, panel, steps>>
      /\ UNCHANGED <<currentRepo, repoData, releases, calls, uncaught>>
      /\ UNCHANGED algVars

\* getPackageJson has answered cycle c: the package check, then
\* checkCherryPickedCommits up to its await (or through, when no base is given)
PackageResponse(c, resp) ==
  LET cy == cycles[c]
      fromVersionInput == Trim(fromInput)
  IN  /\ cy.pc = "package"
      /\ IF ~HasBase(fromVersionInput)
         THEN /\ checks' = [checks EXCEPT
                   !.package = PackageCheck(cy.version, resp),
                   !.release = ReleaseCheck(releases[1], cy.version)]
              /\ cherry' = CherryHidden(cherry)
              /\ cycles' = [cycles EXCEPT ![c] = ReturnedCycle]
              /\ UNCHANGED sent
         ELSE /\ checks' = [checks EXCEPT !.package = PackageCheck(cy.version, resp)]
              /\ cycles' = [cycles EXCEPT ![c] =
                   [cy EXCEPT !.pc = "compare", !.base = fromVersionInput]]
              /\ sent < MaxRequests
              /\ sent' = sent + 1
              /\ UNCHANGED cherry
      /\ UNCHANGED <<targetInput, fromInput, repoError, loading, sections, panel, steps>>
      /\ UNCHANGED <<currentRepo, repoData, releases, calls, uncaught>>
      /\ UNCHANGED algVars

\* compareCommits has answered cycle c: the section, then
\* checkGitHubReleaseExists
CompareResponse(c, resp) ==
  LET cy == cycles[c]
  IN  /\ cy.pc = "compare"
      /\ cherry' = CherryAfterCompare(cherry, cy.base, cy.branch, resp)
      /\ checks' = [checks EXCEPT !.release = ReleaseCheck(releases[1], cy.version)]
      /\ cycles' = [cycles EXCEPT ![c] = ReturnedCycle]
      /\ UNCHANGED <<targetInput, fromInput, repoError, loading, sections, panel, steps>>
      /\ UNCHANGED <<currentRepo, repoData, releases, calls, sent, uncaught>>
      /\ UNCHANGED algVars

(***************************************************************************)
(* The page: user events and network answers, one task at a time.          *)
(***************************************************************************)
Next ==
  \/ \E s \in RepoInputs : AnalyzeRepo(s)
  \/ \E s \in TargetInputs : EditTarget(s)
  \/ \E s \in FromInputs : EditFrom(s)
  \/ \E i \in 1..Len(calls), ok \in BOOLEAN : RepoResponse(i, ok)
  \/ \E i \in 1..Len(calls), ok \in BOOLEAN, list \in ReleaseLists : ReleasesResponse(i, ok, list)
  \/ \E c \in 1..Len(cycles), resp \in BranchResponses : BranchResponse(c, resp)
  \/ \E c \in 1..Len(cycles), resp \in PackageResponses : PackageResponse(c, resp)
  \/ \E c \in 1..Len(cycles), resp \in CompareResponses : CompareResponse(c, resp)

Spec == Init /\ [][Next]_vars

(***************************************************************************)
(* analyzeRepo on its own: submits of two repositories and their answers,  *)
(* the evaluations they start left unanswered.                             *)
(***************************************************************************)
RepoNext ==
  \/ \E s \in TwoRepoInputs : AnalyzeRepo(s)
  \/ \E i \in 1..Len(calls), ok \in BOOLEAN : RepoResponse(i, ok)
  \/ \E i \in 1..Len(calls), ok \in BOOLEAN, list \in ReleaseLists : ReleasesResponse(i, ok, list)

RepoSpec == Init /\ [][RepoNext]_vars

\* every request of checkReleaseSteps is answered: fetch settles each promise,
\* and the event loop runs the continuation of every settled promise
BranchAnswered == \E c \in 1..Len(cycles), resp \in BranchResponses : BranchResponse(c, resp)

PackageAnswered == \E c \in 1..Len(cycles), resp \in PackageResponses : PackageResponse(c, resp)

CompareAnswered == \E c \in 1..Len(cycles), resp \in CompareResponses : CompareResponse(c, resp)

LiveSpec ==
  /\ Init
  /\ [][Next]_vars
  /\ WF_vars(BranchAnswered)
  /\ WF_vars(PackageAnswered)
  /\ WF_vars(CompareAnswered)

(***************************************************************************)
(* VersionUtils on its own: the functions applied to enumerated versions.  *)
(***************************************************************************)
\* nothing, a pre-release, build metadata
Suffixes == {<<>>, <<"-", "r", "c">>, <<"+", "b">>}

\* the version strings the functions are applied to
VersionStrings ==
  {prefix \o Plain(t) \o suffix : prefix \in {<<>>, <<"v">>}, t \in Triples, suffix \in Suffixes}

BumpKinds == {"patch", "minor", "major"}

VerInit ==
  /\ PageLoad(<<>>)
  /\ va \in VersionStrings
  /\ vb \in VersionStrings
  /\ op = "none"
  /\ out = <<>>

ApplyCompare ==
  /\ op' = "compareSemver"
  /\ out' = compareSemver(va, vb)
  /\ UNCHANGED <<va, vb, domVars, appVars>>

ApplyNext(kind) ==
  /\ op' = kind
  /\ out' = getNextVersion(va, kind)
  /\ UNCHANGED <<va, vb, domVars, appVars>>

ApplyIsNext ==
  /\ op' = "isNextVersion"
  /\ out' = isNextVersion(va, vb)
  /\ UNCHANGED <<va, vb, domVars, appVars>>

\* getNextPatchVersion on the release tag made of va and the channel suffix
ApplyNextPatch ==
  /\ op' = "getNextPatchVersion"
  /\ out' = getNextPatchVersion(ReleaseTag(va))
  /\ UNCHANGED <<va, vb, domVars, appVars>>

\* getNextVersion(va, kind) handed back to isNextVersion and compareSemver
ApplyNextThenClassify(kind) ==
  /\ op' = "nextThenClassify"
  /\ out' = <<kind, isNextVersion(va, getNextVersion(va, kind)),
               compareSemver(getNextVersion(va, kind), va)>>
  /\ UNCHANGED <<va, vb, domVars, appVars>>

VerNext ==
  \/ ApplyCompare
  \/ \E kind \in BumpKinds : ApplyNext(kind)
  \/ ApplyIsNext
  \/ ApplyNextPatch
  \/ \E kind \in BumpKinds : ApplyNextThenClassify(kind)

VerSpec == VerInit /\ [][VerNext]_vars

(***************************************************************************)
(* VersionUtils.isValidSemver applied to arbitrary short strings.          *)
(***************************************************************************)
\* the strings over alphabet of length at most n
RECURSIVE StringsUpTo(_, _)
StringsUpTo(alphabet, n) ==
  IF n = 0 THEN {<<>>}
  ELSE LET shorter == StringsUpTo(alphabet, n - 1)
       IN  shorter \cup {Append(s, c) : s \in shorter, c \in alphabet}

\* digits and dots that are not three dot-separated runs of digits
MalformedCores ==
  { <<>>, <<"1">>, <<"1", ".", "1">>, <<"1", ".", "1", ".">>, <<"1", ".", ".", "1">>,
    <<".", "1", ".", "1">>, <<"1", ".", "1", ".", "1", ".", "1">> }

\* no, one or two leading "v", digits and dots, then separators and letters
CandidateStrings ==
  {head \o core \o tail : head \in StringsUpTo({"v"}, 2),
                          core \in {Plain(t) : t \in Triples} \cup MalformedCores,
                          tail \in StringsUpTo({"-", "+", "v", "."}, MaxTail)}

ValidInit ==
  /\ PageLoad(<<>>)
  /\ va \in CandidateStrings
  /\ vb = <<>>
  /\ op = "none"
  /\ out = <<>>

ApplyValid ==
  /\ op = "none"
  /\ op' = "isValidSemver"
  /\ out' = isValidSemver(va)
  /\ UNCHANGED <<va, vb, domVars, appVars>>

ValidNext == ApplyValid

ValidSpec == ValidInit /\ [][ValidNext]_vars

(***************************************************************************)
(* Vocabulary of the properties.                                           *)
(***************************************************************************)
\* the check element shows "pass" / "fail" / has been reset and not resolved
Passed(item) == item.cls = "check-item success"

Failed(item) == item.cls = "check-item danger"

Resolved(item) == Passed(item) \/ Failed(item)

\* no invocation of checkReleaseSteps is suspended
Quiescent == \A c \in 1..Len(cycles) : cycles[c].pc = "done"

\* cycle c returns in this step
Finishes(c) == cycles[c].pc # "done" /\ cycles'[c].pc = "done"

\* (major, minor, patch) of a valid version string: one leading v dropped,
\* three runs of digits read, whatever follows ignored
SemverTriple(s) ==
  LET d1 == DigitPrefix(StripV(s))
      r1 == SubSeq(StripV(s), Len(d1) + 2, Len(StripV(s)))
      d2 == DigitPrefix(r1)
      r2 == SubSeq(r1, Len(d2) + 2, Len(r1))
  IN  <<DigitsValue(d1), DigitsValue(d2), DigitsValue(DigitPrefix(r2))>>

\* lexicographic order of two triples as -1, 0, 1
LexCompare(t, u) ==
  IF t = u THEN 0
  ELSE IF \/ t[1] < u[1]
          \/ t[1] = u[1] /\ t[2] < u[2]
          \/ t[1] = u[1] /\ t[2] = u[2] /\ t[3] < u[3]
       THEN -1 ELSE 1

\* the successor of a triple under a bump kind
Bump(t, kind) ==
  IF kind = "major" THEN <<t[1] + 1, 0, 0>>
  ELSE IF kind = "minor" THEN <<t[1], t[2] + 1, 0>>
  ELSE <<t[1], t[2], t[3] + 1>>

\* the bump kind that takes triple t to triple u, "false" when there is none
Classify(t, u) ==
  IF u = Bump(t, "patch") THEN "patch"
  ELSE IF u = Bump(t, "minor") THEN "minor"
  ELSE IF u = Bump(t, "major") THEN "major"
  ELSE "false"

(***************************************************************************)
(* C1. Stale-result discard.                                               *)
(***************************************************************************)
\* C1: once every evaluation cycle has finished, the checklist shows the
\* results of the cycle started last: the published-release item names the
\* tag of the last generated steps, and a passed branch item names their
\* release branch (generateReleaseSteps runs right before every cycle starts).
C1_StaleDiscard ==
  (Quiescent /\ cycles # <<>>) =>
     /\ checks.release.msg[2] = steps.link.tag
     /\ Passed(checks.branch) => checks.branch.msg[2] = steps.link.target

(***************************************************************************)
(* C2. An invalid target-version edit changes nothing.                     *)
(***************************************************************************)
\* C2: an edit of the target-version field whose trimmed value is empty or
\* is rejected by isValidSemver issues no request, starts no cycle, and leaves
\* the commands, the link, the checklist and the cherry-pick section as they were.
C2_InvalidEditKeepsState ==
  [][\A s \in TargetInputs :
       (EditTarget(s) /\ (Trim(s) = <<>> \/ ~isValidSemver(Trim(s)))) =>
          /\ UNCHANGED <<steps, checks, cherry, sections>>
          /\ UNCHANGED <<cycles, calls, sent>>
          /\ UNCHANGED <<currentRepo, repoData, releases, uncaught>>]_vars

\* a malformed version sits in the field under a resolved checklist
C2_Witness ==
  /\ targetInput = <<"v", "1", ".", "0">>
  /\ Resolved(checks.branch) /\ Resolved(checks.package) /\ Resolved(checks.release)
  /\ steps.link.tag # <<>>

(***************************************************************************)
(* C3. A failed manifest fetch fails only the manifest check.              *)
(***************************************************************************)
\* C3: when getPackageJson fails in a cycle whose branch exists, the
\* manifest check becomes fail with the generic message, the branch check is
\* not touched (it shows pass when no other cycle has run), the commit
\* comparison is requested when a base is supplied, no error escapes, and the
\* published-release check is resolved when the cycle returns.
C3_ManifestFailureIsolated ==
  [][\A c \in 1..Len(cycles) :
       /\ PackageResponse(c, [ok |-> FALSE, version |-> <<>>]) =>
            /\ checks'.package =
                 [cls |-> "check-item danger", msg |-> <<"Error checking package.json version">>]
            /\ checks'.branch = checks.branch
            /\ Len(cycles) = 1 => Passed(checks'.branch)
            /\ uncaught' = uncaught
            /\ IF Trim(fromInput) # <<>>
               THEN cycles'[c].pc = "compare" /\ cycles'[c].base = Trim(fromInput)
               ELSE cycles'[c].pc = "done" /\ cherry'.display = "none"
       /\ Finishes(c) => Resolved(checks'.release)]_vars

\* the manifest check shows the generic failure next to a passed branch
\* check and a resolved published-release check
C3_Witness ==
  /\ checks.package.msg = <<"Error checking package.json version">>
  /\ Failed(checks.package)
  /\ Passed(checks.branch)
  /\ Resolved(checks.release)
  /\ Quiescent

(***************************************************************************)
(* C4. A failed or empty comparison shows no commits.                      *)
(***************************************************************************)
\* C4: when compareCommits fails or returns no commits, the cherry-pick
\* section is shown with the single entry "None" and the compare link of the
\* cycle, the branch check is not touched (it shows pass when no other cycle
\* has run), no error escapes and the published-release check is resolved.
C4_EmptyComparisonShown ==
  [][\A c \in 1..Len(cycles), resp \in CompareResponses :
       (CompareResponse(c, resp) /\ (~resp.ok \/ resp.commits = <<>>)) =>
          /\ cherry' = [display |-> "block", list |-> <<<<"None">>>>,
                        link |-> <<cycles[c].base, cycles[c].branch>>]
          /\ checks'.branch = checks.branch
          /\ Len(cycles) = 1 => Passed(checks'.branch)
          /\ uncaught' = uncaught
          /\ Resolved(checks'.release)]_vars

\* the section shows "None" under a passed branch check, cycle finished
C4_Witness ==
  /\ cherry.display = "block"
  /\ cherry.list = <<<<"None">>>>
  /\ Passed(checks.branch)
  /\ Resolved(checks.release)
  /\ Quiescent

(***************************************************************************)
(* C5. The published-release check.                                        *)
(***************************************************************************)
\* some record of the fetched list carries exactly version + "-vscode"
Published(version) ==
  \E i \in 1..Len(releases[1]) :
     releases[1][i].tag_name = version \o <<"-", "v", "s", "c", "o", "d", "e">>

\* C5: whichever way a cycle returns (branch found, absent or probe
\* error), the step that ends it resolves the published-release check, issues
\* no request, and the check passes iff the fetched release list holds a
\* record whose tag is exactly the target version followed by "-vscode".
C5_PublishedReleaseCheck ==
  [][\A c \in 1..Len(cycles) :
       Finishes(c) =>
          /\ Resolved(checks'.release)
          /\ Passed(checks'.release) <=> Published(cycles[c].version)
          /\ sent' = sent]_vars

\* the check passed although the branch is absent
C5_Witness ==
  /\ Passed(checks.release)
  /\ Failed(checks.branch)
  /\ checks.branch.msg = <<"Release branch missing, run command to create branch">>

(***************************************************************************)
(* C6. Not applicable on a missing branch.                                 *)
(***************************************************************************)
\* C6: when the probe reports the release branch absent, the branch check
\* fails and the manifest check and the cherry-pick check end in a state
\* distinct from fail.
C6_MissingBranchNotApplicable ==
  [][\A c \in 1..Len(cycles) :
       BranchResponse(c, "notfound") =>
          /\ Failed(checks'.branch)
          /\ ~Failed(checks'.package)
          /\ cherry'.display = "none"]_vars

(***************************************************************************)
(* C7. Manifest version match.                                             *)
(***************************************************************************)
\* C7: the manifest check passes iff manifest version and target version
\* are equal after one leading "v" is dropped from both.
C7_ManifestMatchStripsBoth ==
  [][\A c \in 1..Len(cycles), m \in ManifestVersions :
       PackageResponse(c, [ok |-> TRUE, version |-> m]) =>
          (Passed(checks'.package) <=> StripV(m) = StripV(cycles[c].version))]_vars

(***************************************************************************)
(* C8 - C10. VersionUtils.                                                 *)
(***************************************************************************)
\* C8: compareSemver of two valid versions is the lexicographic comparison
\* of their (major, minor, patch) triples, suffixes ignored.
C8_CompareIsTripleOrder ==
  op = "compareSemver" => out = LexCompare(SemverTriple(va), SemverTriple(vb))

\* C9: getNextVersion of a valid version is "v" followed by the bumped
\* triple, any suffix dropped.
C9_NextVersionBumps ==
  op \in BumpKinds =>
     LET t == Bump(SemverTriple(va), op) IN out = FormatV(t[1], t[2], t[3])

\* C10: isNextVersion names the bump kind that takes the current triple to
\* the candidate triple, and is false when there is none.
C10_IsNextClassifies ==
  op = "isNextVersion" => out = Classify(SemverTriple(va), SemverTriple(vb))

(***************************************************************************)
(* C11. isValidSemver.                                                     *)
(***************************************************************************)
\* s[a..b] is a non-empty run of digits
DigitRun(s, a, b) == a <= b /\ \A i \in a..b : s[i] \in {"0", "1", "2", "3", "4", "5", "6", "7", "8", "9"}

\* s[a..b] is a non-empty run of suffix characters
SuffixRun(s, a, b) == a <= b /\ \A i \in a..b : IsSuffixChar(s[i])

\* what follows the patch digits from position a on: nothing, "-pre",
\* "+build", or "-pre+build"
OptionalSuffixes(s, a) ==
  LET n == Len(s)
  IN  \/ a > n
      \/ s[a] = "-" /\ SuffixRun(s, a + 1, n)
      \/ s[a] = "+" /\ SuffixRun(s, a + 1, n)
      \/ s[a] = "-" /\ \E p \in (a + 2)..(n - 1) :
              s[p] = "+" /\ SuffixRun(s, a + 1, p - 1) /\ SuffixRun(s, p + 1, n)

\* digits "." digits "." digits, then the optional suffixes
TripleGrammar(s) ==
  \E i, j, k \in 1..Len(s) :
     /\ i < j /\ j < k
     /\ s[i] = "." /\ s[j] = "."
     /\ DigitRun(s, 1, i - 1) /\ DigitRun(s, i + 1, j - 1) /\ DigitRun(s, j + 1, k)
     /\ OptionalSuffixes(s, k + 1)

\* C11: isValidSemver accepts exactly the strings that, after at most one
\* leading "v" is dropped, are digits.digits.digits with an optional
\* "-prerelease" and an optional "+buildmeta"; in particular it accepts
\* "M.m.p" and "vM.m.p" and rejects "vv1.1.1", "1.1", "1.1.1.1", "1.1.v", "".
C11_ValidIsTripleGrammar ==
  op = "isValidSemver" =>
     out = TripleGrammar(IF va # <<>> /\ va[1] = "v" THEN SubSeq(va, 2, Len(va)) ELSE va)

\* a doubled prefix in front of a valid triple has been rejected
C11_Witness ==
  /\ op = "isValidSemver"
  /\ va = <<"v", "v", "1", ".", "1", ".", "1">>
  /\ out = FALSE

(***************************************************************************)
(* C12. Concurrency of the four checks.                                    *)
(***************************************************************************)
\* C12: the checks do not wait on each other: the step that starts an
\* evaluation resolves the published-release check, which needs no request,
\* and when the branch is found and a base is supplied the manifest fetch and
\* the commit comparison are requested together.
C12_ChecksConcurrent ==
  [][/\ Len(cycles') > Len(cycles) => Resolved(checks'.release)
     /\ \A c \in 1..Len(cycles) :
          (BranchResponse(c, "ok") /\ Trim(fromInput) # <<>>) => sent' = sent + 2]_vars

(***************************************************************************)
(* C13. The release snapshot.                                              *)
(***************************************************************************)
\* the tag ends with "-vscode"
HasChannel(tag) ==
  Len(tag) >= 7 /\ SubSeq(tag, Len(tag) - 6, Len(tag)) = <<"-", "v", "s", "c", "o", "d", "e">>

\* the tag of the first record in list order that carries the channel suffix
\* and whose pre-release flag is pre; the empty option when there is none
FirstOfKind(rels, pre) ==
  LET hits == {i \in 1..Len(rels) : HasChannel(rels[i].tag_name) /\ rels[i].prerelease = pre}
  IN  IF hits = {} THEN <<>>
      ELSE <<rels[CHOOSE i \in hits : \A j \in hits : i <= j].tag_name>>

\* C13: when a fetch succeeds, the latest release and the latest pre-release
\* of the status panel are the first channel-suffixed record of each kind in
\* list order, absent iff there is none; the instruction text generated with
\* every evaluation names the same latest release.
C13_SnapshotIsFirstOfKind ==
  [][/\ \A i \in 1..Len(calls) :
          (calls[i].pc = "pending" /\ calls'[i].pc = "succeeded") =>
             /\ panel'.latestRelease = FirstOfKind(releases'[1], FALSE)
             /\ panel'.latestPrerelease = FirstOfKind(releases'[1], TRUE)
     /\ Len(cycles') > Len(cycles) =>
          steps'.previousTag =
             IF FirstOfKind(releases'[1], FALSE) = <<>> THEN <<"latest release">>
             ELSE FirstOfKind(releases'[1], FALSE)[1]]_vars

\* the panel shows the first stable and the first pre-release of a list
\* that holds two channel releases of each kind
C13_Witness ==
  /\ releases # NULL
  /\ Len(releases[1]) = 4
  /\ panel.latestRelease = <<<<"v", "1", ".", "0", ".", "0", "-", "v", "s", "c", "o", "d", "e">>>>
  /\ panel.latestPrerelease = <<<<"v", "1", ".", "1", ".", "0", "-", "v", "s", "c", "o", "d", "e">>>>

(***************************************************************************)
(* C14. The pre-filled target version.                                     *)
(***************************************************************************)
\* C14: for every channel-suffixed tag whose version part is a valid semver,
\* a pre-release suffix before the channel suffix included, the pre-filled
\* value getNextPatchVersion(tag) equals getNextVersion(tag, "patch").
C14_PrefillIsNextPatch ==
  op = "getNextPatchVersion" =>
     out = getNextVersion(va \o <<"-", "v", "s", "c", "o", "d", "e">>, "patch")

(***************************************************************************)
(* C15. The expected release branch name.                                  *)
(***************************************************************************)
\* t followed by "-vscode-release"
ExpectedBranch(t) ==
  t \o <<"-", "v", "s", "c", "o", "d", "e", "-", "r", "e", "l", "e", "a", "s", "e">>

\* t followed by "-vscode"
ExpectedTag(t) == t \o <<"-", "v", "s", "c", "o", "d", "e">>

\* C15: an evaluation of target t (the trimmed field value) probes the
\* branch t-vscode-release; the step that starts it writes the same name in
\* the creation command, the push command and the target parameter of the
\* draft-release link, whose tag parameter is t-vscode; the manifest is
\* fetched at the same branch, and the published-release check looks for the
\* tag t-vscode.
C15_BranchNameEverywhere ==
  [][/\ Len(cycles') > Len(cycles) =>
          LET started == cycles'[Len(cycles')]
              t == started.version
          IN  /\ t = Trim(targetInput')
              /\ started.pc = "branch"
              /\ started.branch = ExpectedBranch(t)
              /\ steps'.createCmd[1] = ExpectedBranch(t)
              /\ steps'.pushCmd = ExpectedBranch(t)
              /\ steps'.link.target = ExpectedBranch(t)
              /\ steps'.link.tag = ExpectedTag(t)
     /\ \A c \in 1..Len(cycles) :
          /\ BranchResponse(c, "ok") =>
               /\ cycles'[c].pc = "package"
               /\ cycles'[c].branch = ExpectedBranch(cycles[c].version)
               /\ checks'.branch.msg[2] = ExpectedBranch(cycles[c].version)
          /\ Finishes(c) => checks'.release.msg[2] = ExpectedTag(cycles[c].version)]_vars

\* the manifest of v1.0.0-vscode-release is being fetched under commands
\* and a link that name the same branch
C15_Witness ==
  \E c \in 1..Len(cycles) :
     /\ cycles[c].pc = "package"
     /\ cycles[c].branch = ExpectedBranch(<<"v", "1", ".", "0", ".", "0">>)
     /\ steps.pushCmd = cycles[c].branch
     /\ steps.link.target = cycles[c].branch
     /\ steps.link.tag = ExpectedTag(<<"v", "1", ".", "0", ".", "0">>)

(***************************************************************************)
(* C16. The base branch.                                                   *)
(***************************************************************************)
\* the trimmed from-version when there is one, else v{major}.{minor+1}.x-vscode
\* of the target
ExpectedBase(t, from) ==
  IF Trim(from) # <<>> THEN Trim(from)
  ELSE <<"v">> \o NatToStr(SemverTriple(t)[1]) \o <<".">> \o NatToStr(SemverTriple(t)[2] + 1)
         \o <<".", "x", "-", "v", "s", "c", "o", "d", "e">>

C17_ChecklistOneCycle ==
  (Passed(checks.branch) /\ Resolved(checks.release)) =>
     checks.branch.msg[2] = checks.release.msg[2] \o <<"-", "r", "e", "l", "e", "a", "s", "e">>

(***************************************************************************)
(* C18. The gateway degrades failures.                                     *)
(***************************************************************************)
\* C18: no answer to the branch probe or to the comparison raises: the
\* probe counts as true on success and as false on not-found and on a
\* transport error alike (the branch is reported missing), and a failed
\* comparison counts as null (no commits), a successful one as its commits.
C18_GatewayNeverRaises ==
  [][\A c \in 1..Len(cycles) :
       /\ \A resp \in BranchResponses :
            BranchResponse(c, resp) =>
               /\ uncaught' = uncaught
               /\ Passed(checks'.branch) <=> resp = "ok"
               /\ resp # "ok" =>
                    checks'.branch =
                       [cls |-> "check-item danger",
                        msg |-> <<"Release branch missing, run command to create branch">>]
       /\ \A resp \in CompareResponses :
            CompareResponse(c, resp) =>
               /\ uncaught' = uncaught
               /\ ~resp.ok => cherry'.list = <<<<"None">>>>
               /\ (resp.ok /\ resp.commits # <<>>) =>
                    /\ Len(cherry'.list) = Len(resp.commits)
                    /\ cherry'.list[1][1] = "commit"]_vars

\* a probe has been answered negatively: the branch is reported missing,
\* the section is hidden and nothing escaped
C18_Witness ==
  /\ Failed(checks.branch)
  /\ checks.branch.msg = <<"Release branch missing, run command to create branch">>
  /\ cherry.display = "none"
  /\ ~uncaught
  /\ currentRepo # NULL

(***************************************************************************)
(* C19. The manifest fetch is gated by the branch probe.                   *)
(***************************************************************************)
\* C19: an evaluation requests the manifest only in the step where its
\* branch probe is answered true, at its release branch; when the probe
\* answers false or fails, the evaluation issues no request and returns.
C19_ManifestGated ==
  [][/\ \A c \in 1..Len(cycles') : cycles'[c].pc = "package" => c <= Len(cycles)
     /\ \A c \in 1..Len(cycles) :
          /\ (cycles[c].pc # "package" /\ cycles'[c].pc = "package") =>
               /\ cycles[c].pc = "branch"
               /\ BranchResponse(c, "ok")
               /\ Passed(checks'.branch)
               /\ sent' = sent + 1
               /\ cycles'[c].branch =
                    cycles[c].version \o <<"-", "v", "s", "c", "o", "d", "e", "-", "r", "e", "l", "e", "a", "s", "e">>
          /\ \A resp \in {"notfound", "error"} :
               BranchResponse(c, resp) => (sent' = sent /\ cycles'[c].pc = "done")]_vars

\* a manifest fetch is pending under a passed branch check of its branch
C19_Witness ==
  \E c \in 1..Len(cycles) :
     /\ cycles[c].pc = "package"
     /\ Passed(checks.branch)
     /\ checks.branch.msg[2] = cycles[c].branch

(***************************************************************************)
(* C20. The comparison is gated by the probe and the from-version.         *)
(***************************************************************************)
\* C20: an evaluation requests the commit comparison only after its
\* manifest step (so after a true probe) and only when the trimmed
\* from-version is non-empty, with that value as base and never the computed
\* fallback; without a from-version no request is issued, the cherry-pick
\* section is hidden and nothing is reported as failed for it; after a
\* false probe the evaluation returns without a comparison.
C20_ComparisonGated ==
  [][\A c \in 1..Len(cycles) :
       /\ (cycles[c].pc # "compare" /\ cycles'[c].pc = "compare") =>
            /\ cycles[c].pc = "package"
            /\ Trim(fromInput) # <<>>
            /\ cycles'[c].base = Trim(fromInput)
            /\ cycles'[c].base # ExpectedBase(cycles[c].version, <<>>)
            /\ sent' = sent + 1
       /\ \A resp \in PackageResponses :
            (PackageResponse(c, resp) /\ Trim(fromInput) = <<>>) =>
               /\ sent' = sent
               /\ cycles'[c].pc = "done"
               /\ cherry'.display = "none"
               /\ uncaught' = uncaught
       /\ \A resp \in {"notfound", "error"} :
            BranchResponse(c, resp) => cycles'[c].pc = "done"]_vars

\* branch found, no from-version: the section is hidden and the evaluation
\* has returned
C20_Witness ==
  /\ Quiescent
  /\ Passed(checks.branch)
  /\ Resolved(checks.package)
  /\ Trim(fromInput) = <<>>
  /\ cherry.display = "none"

(***************************************************************************)
(* C21. Every evaluation resolves the checklist.                           *)
(***************************************************************************)
\* none of the three items is in the reset state
AllResolved ==
  Resolved(checks.branch) /\ Resolved(checks.package) /\ Resolved(checks.release)

\* the request budget of the model is used up while an answered manifest
\* fetch would have to be followed by a comparison request
Stalled ==
  /\ sent = MaxRequests
  /\ Trim(fromInput) # <<>>
  /\ \E c \in 1..Len(cycles) : cycles[c].pc = "package"

C22_PrivateFacts ==
  [][\A c \in 1..Len(cycles) :
       /\ (cycles[c].pc # "done" /\ cycles'[c].pc # "done") =>
            /\ cycles'[c].owner = cycles[c].owner
            /\ cycles'[c].repo = cycles[c].repo
            /\ cycles'[c].version = cycles[c].version
            /\ releases' = releases
       /\ (cycles[c].pc \in {"branch", "package"} /\ cycles'[c].pc \in {"branch", "package"}) =>
            Trim(fromInput') = Trim(fromInput)]_vars

(***************************************************************************)
(* C23. No automatic retries.                                              *)
(***************************************************************************)
\* how far an evaluation has come
Rank(pc) ==
  IF pc = "branch" THEN 1 ELSE IF pc = "package" THEN 2 ELSE IF pc = "compare" THEN 3 ELSE 4

\* C23: an evaluation only moves forward (probe, manifest, comparison,
\* returned), so it issues each of its requests at most once; every request
\* of a step is the one request of an evaluation that moved on to its next
\* await, the probe of an evaluation that started, or the two requests of an
\* analyzeRepo call; an evaluation that returns issues none.
C23_NoRetries ==
  [][/\ \A c \in 1..Len(cycles) :
          \/ cycles'[c] = cycles[c]
          \/ Rank(cycles'[c].pc) > Rank(cycles[c].pc)
     /\ sent' - sent =
          Cardinality({c \in 1..Len(cycles) :
                         cycles'[c].pc # cycles[c].pc /\ cycles'[c].pc # "done"})
          + (Len(cycles') - Len(cycles))
          + 2 * (Len(calls') - Len(calls))]_vars

\* the only evaluation so far has returned on a missing branch, with its
\* single request
C23_Witness ==
  /\ Len(cycles) = 1
  /\ Quiescent
  /\ Failed(checks.branch)
  /\ Len(calls) = 1
  /\ sent = 3

(***************************************************************************)
(* C24. A valid target edit re-uses the fetched facts.                     *)
(***************************************************************************)
\* C24: a valid edit of the target version issues no getRepo or getReleases
\* request and leaves repoData, releases and currentRepo as they are; with a
\* repository loaded it starts one evaluation, whose only request at that
\* point is the branch probe.
C24_EditReusesFacts ==
  [][\A s \in TargetInputs :
       (EditTarget(s) /\ Trim(s) # <<>> /\ isValidSemver(Trim(s))) =>
          /\ calls' = calls
          /\ UNCHANGED <<currentRepo, repoData, releases>>
          /\ currentRepo # NULL =>
               /\ Len(cycles') = Len(cycles) + 1
               /\ cycles'[Len(cycles')].pc = "branch"
               /\ cycles'[Len(cycles')].version = Trim(s)
               /\ sent' = sent + 1]_vars

\* v1.0.0 has been typed over a loaded repository: its evaluation waits
\* for the branch probe and no analyzeRepo call is in flight
C24_Witness ==
  /\ targetInput = <<" ", "v", "1", ".", "0", ".", "0">>
  /\ currentRepo # NULL
  /\ releases # NULL
  /\ \A i \in 1..Len(calls) : calls[i].pc # "pending"
  /\ \E c \in 1..Len(cycles) :
        cycles[c].version = <<"v", "1", ".", "0", ".", "0">> /\ cycles[c].pc = "branch"

(***************************************************************************)
(* C27. Edits before a repository is loaded.                               *)
(***************************************************************************)
\* C27: a valid target-version edit, or a from-version edit under a valid
\* target, made while no repository has been loaded issues no request,
\* changes no command and no checklist item, and raises no error.
C27_IdleEditIsInert ==
  [][/\ \A s \in TargetInputs :
          (EditTarget(s) /\ currentRepo = NULL /\ Trim(s) # <<>> /\ isValidSemver(Trim(s))) =>
             (UNCHANGED <<steps, checks, cycles, sent>> /\ ~uncaught')
     /\ \A s \in FromInputs :
          (EditFrom(s) /\ currentRepo = NULL
             /\ Trim(targetInput) # <<>> /\ isValidSemver(Trim(targetInput))) =>
             (UNCHANGED <<steps, checks, cycles, sent>> /\ ~uncaught')]_vars

(***************************************************************************)
(* C28. getNextVersion and isNextVersion agree.                            *)
(***************************************************************************)
\* C28: for every valid version v and every kind k, isNextVersion(v,
\* getNextVersion(v, k)) is k and compareSemver(getNextVersion(v, k), v) is 1.
C28_NextAndClassifyAgree ==
  op = "nextThenClassify" => (out[2] = out[1] /\ out[3] = 1)

(***************************************************************************)
(* C25. An analyzeRepo call that does not succeed.                         *)
(***************************************************************************)
\* the trimmed field value has a non-empty owner and a non-empty repository
\* around its first "/"
HasOwnerAndRepo(input) ==
  LET t == Trim(input)
  IN  \E i \in 2..(Len(t) - 1) :
         /\ t[i] = "/"
         /\ \A j \in 1..(i - 1) : t[j] # "/"
         /\ t[i + 1] # "/"

====
